---------------------------- MODULE Spec2Model ----------------------------
(***************************************************************************)
(* A model of react-intl-modules-loader: the webpack loader that replaces  *)
(* the strings of a locale module by unique message ids (compile), and the *)
(* combine helper that merges the per-module message tables (merge).  The  *)
(* loader exists in two versions: the multi-language one (part_003) and    *)
(* the single-language one with the @locale marker (index.js).             *)
(*                                                                         *)
(* JavaScript values are tagged records [t, s, v].  An object is the list  *)
(* of its own enumerable properties, <<key, value>> pairs, in the          *)
(* order for..in visits them; strings are TLA+ strings, joined with \o as  *)
(* the code joins them with +.  No key of the model reads as an array      *)
(* index, so for..in order is insertion order; no language maps to a bare  *)
(* string (for..in would walk its characters).                             *)
(***************************************************************************)
EXTENDS Integers, Sequences, FiniteSets, TLC

VARIABLES
    src,            \* what this.exec(source) evaluates the module source to
    resourcePath,   \* Path.relative(context, resourcePath), cut into pieces
    config,         \* the loader config, [shorten, lang] (lang "" when not set)
    version,        \* "multi" | "single": the version of the loader in use
    pc,             \* "idle" | "pending" | "done": the loader invocation
    output,         \* what the last loader invocation returned or threw
    sequence,       \* part_003 line 33, index.js line 8
    prefixMap,      \* part_003 line 40, index.js line 9
    baseline,       \* history: the first finished invocation of this process
    issued,         \* history: the short prefix each path got the first time
    tables,         \* what req.keys().map(...) hands to combine
    mpc,            \* "idle" | "pending" | "done" | "doneFlat": the combine call
    merged,         \* the result of combine (recursive merge)
    mergedFlat      \* the result of the flat Object.assign combine

vars == <<src, resourcePath, config, version, pc, output, sequence, prefixMap,
          baseline, issued, tables, mpc, merged, mergedFlat>>

loaderVars == <<src, resourcePath, config, version, pc, output, sequence,
                prefixMap, baseline, issued>>
combineVars == <<tables, mpc, merged, mergedFlat>>

(***************************************************************************)
(* JavaScript values                                                       *)
(***************************************************************************)
\* s is the text of a primitive, v the properties of an object or an array
Str(s) == [t |-> "string", s |-> s, v |-> <<>>]
Num(s) == [t |-> "number", s |-> s, v |-> <<>>]
Bool(s) == [t |-> "boolean", s |-> s, v |-> <<>>]
Null == [t |-> "null", s |-> "null", v |-> <<>>]
Undefined == [t |-> "undefined", s |-> "undefined", v |-> <<>>]
Obj(props) == [t |-> "object", s |-> "", v |-> props]
\* an array has its indices "0", "1", ... as keys
Arr(elems) == [t |-> "array", s |-> "",
               v |-> [i \in 1..Len(elems) |-> <<ToString(i - 1), elems[i]>>]]

\* The typeof operator: arrays and null are "object".
typeof(x) ==
    CASE x.t = "string" -> "string"
      [] x.t = "number" -> "number"
      [] x.t = "boolean" -> "boolean"
      [] x.t \in {"object", "array", "null"} -> "object"

\* for (let key in x): the <<key, value>> pairs visited, in order; null and
\* the primitives of the model have none.
forIn(x) == IF x.t \in {"object", "array"} THEN x.v ELSE <<>>

\* key in obj
Has(props, key) == \E i \in 1..Len(props) : props[i][1] = key

\* obj[key], for a key the object has
Get(props, key) == props[CHOOSE i \in 1..Len(props) : props[i][1] = key][2]

\* obj[key], undefined for a key the object does not have
Prop(props, key) == IF Has(props, key) THEN Get(props, key) ELSE Undefined

\* obj[key] = value: an existing property keeps its place, a new one is last.
Put(props, key, value) ==
    IF Has(props, key)
    THEN [i \in 1..Len(props) |->
             IF props[i][1] = key THEN <<key, value>> ELSE props[i]]
    ELSE Append(props, <<key, value>>)

\* Object.assign(dst, src)
RECURSIVE assignFrom(_, _, _)
assignFrom(dst, from, i) ==
    IF i > Len(from) THEN dst
    ELSE assignFrom(Put(dst, from[i][1], from[i][2]), from, i + 1)

assign(dst, from) == assignFrom(dst, from, 1)

\* delete obj[key]
Delete(props, key) == SelectSeq(props, LAMBDA e : e[1] # key)

\* ToBoolean: undefined, null, "", 0 and false are falsy.
truthy(x) ==
    ~(\/ x.t \in {"undefined", "null"}
      \/ x.t \in {"string", "number", "boolean"} /\ x.s \in {"", "0", "false"})

\* What a plain object ({}) inherits from Object.prototype, by name: the
\* functions, with the text that string concatenation gives them.
ObjectPrototype == {"constructor", "toString"}
Inherited(name) ==
    [t |-> "function",
     s |-> "function " \o (IF name = "constructor" THEN "Object" ELSE name)
               \o "() { [native code] }",
     v |-> <<>>]

\* map[key] on a plain object, kept as a function from its own keys
Lookup(map, key) ==
    IF key \in DOMAIN map THEN map[key]
    ELSE IF key \in ObjectPrototype THEN Inherited(key)
    ELSE Undefined

\* map[key] = value
Store(map, key, value) ==
    [k \in DOMAIN map \cup {key} |-> IF k = key THEN value ELSE map[k]]

(***************************************************************************)
(* The loader (part_003)                                                   *)
(***************************************************************************)
\* .replace(/\\/g, "/") on the pieces of the relative path, then the string.
RECURSIVE join(_)
join(pieces) ==
    IF pieces = <<>> THEN "" ELSE Head(pieces) \o join(Tail(pieces))

normalise(pieces) ==
    join([i \in 1..Len(pieces) |-> IF pieces[i] = "\\" THEN "/" ELSE pieces[i]])

\* getPrefix returning the short prefix of a mapped path whatever the config
getPrefixMapped(path, cfg, seq, map) ==
    LET prefix == normalise(path) IN
    IF prefix \in DOMAIN map
    THEN [prefix |-> map[prefix], sequence |-> seq, prefixMap |-> map]
    ELSE IF ~cfg.shorten
         THEN [prefix |-> Str(prefix), sequence |-> seq, prefixMap |-> map]
         ELSE [prefix |-> Num(ToString(seq)), sequence |-> seq + 1,
               prefixMap |-> Store(map, prefix, Num(ToString(seq)))]

\* getPrefix: the prefix (the relative path, or what
\* prefixMap[prefix] = prefixMap[prefix] || sequence++ evaluates to) and the
\* shortening state it leaves.  Both versions of the loader have this code.
getPrefix(path, cfg, seq, map) ==
    LET prefix == normalise(path)
        held == Lookup(map, prefix)
    IN IF ~cfg.shorten
       THEN [prefix |-> Str(prefix), sequence |-> seq, prefixMap |-> map]
       ELSE IF truthy(held)
            THEN [prefix |-> held, sequence |-> seq,
                  prefixMap |-> Store(map, prefix, held)]
            ELSE [prefix |-> Num(ToString(seq)), sequence |-> seq + 1,
                  prefixMap |-> Store(map, prefix, Num(ToString(seq)))]

\* check(obj, path): "" when every value is a string or an object, else the
\* path the TypeError names (the first offending value in for..in order).
RECURSIVE check(_, _), checkFrom(_, _, _)
checkFrom(props, path, i) ==
    IF i > Len(props) THEN ""
    ELSE LET key == props[i][1]
             value == props[i][2]
             here == CASE typeof(value) = "string" -> ""
                       [] typeof(value) = "object" -> check(value, path \o "." \o key)
                       [] OTHER -> path \o "." \o key
         IN IF here # "" THEN here ELSE checkFrom(props, path, i + 1)

check(obj, path) == checkFrom(forIn(obj), path, 1)

\* parseSource: what it throws, or "" and the parsed value is returned.
parseSource(json) ==
    IF typeof(json) # "object"
    THEN [error |-> "Error", at |-> "Locale data must be an object"]
    ELSE IF check(json, "root") # ""
         THEN [error |-> "TypeError", at |-> check(json, "root")]
         ELSE [error |-> "", at |-> ""]

\* compile's inner convert(obj, path): [ids, values], both property lists.
RECURSIVE convert(_, _), convertFrom(_, _, _, _), convertFromNoAssign(_, _, _, _)
\* convertFrom without Object.assign(values, nested.values)
convertFromNoAssign(props, path, i, acc) ==
    IF i > Len(props) THEN acc
    ELSE LET key == props[i][1]
             value == props[i][2]
         IN IF typeof(value) = "object"
            THEN LET nested == convert(value, path \o key \o ".")
                 IN convertFromNoAssign(props, path, i + 1,
                        [ids |-> Put(acc.ids, key, Obj(nested.ids)),
                         values |-> acc.values])
            ELSE convertFromNoAssign(props, path, i + 1,
                        [ids |-> Put(acc.ids, key, Str(path \o key)),
                         values |-> Put(acc.values, path \o key, value)])

convertFrom(props, path, i, acc) ==
    IF i > Len(props) THEN acc
    ELSE LET key == props[i][1]
             value == props[i][2]
         IN IF typeof(value) = "object"
            THEN LET nested == convert(value, path \o key \o ".")
                 IN convertFrom(props, path, i + 1,
                        [ids |-> Put(acc.ids, key, Obj(nested.ids)),
                         values |-> assign(acc.values, nested.values)])
            ELSE convertFrom(props, path, i + 1,
                        [ids |-> Put(acc.ids, key, Str(path \o key)),
                         values |-> Put(acc.values, path \o key, value)])

convert(obj, path) == convertFrom(forIn(obj), path, 1, [ids |-> <<>>, values |-> <<>>])

\* compile's loop over the languages: [ids, langs].  prefix + ":" is the
\* number's or the string's text followed by ":".
RECURSIVE compileLangs(_, _, _, _)
compileLangs(props, prefix, i, acc) ==
    IF i > Len(props) THEN acc
    ELSE LET converted == convert(props[i][2], prefix.s \o ":")
         IN compileLangs(props, prefix, i + 1,
                [ids |-> assign(acc.ids, converted.ids),
                 langs |-> Put(acc.langs, props[i][1], Obj(converted.values))])

\* compile calling getPrefix before parseSource
compilePrefixFirst(json, path, cfg, seq, map) ==
    LET p == getPrefix(path, cfg, seq, map)
        parsed == parseSource(json)
    IN IF parsed.error # ""
       THEN [threw |-> TRUE, error |-> parsed.error, at |-> parsed.at,
             exports |-> <<>>, messages |-> <<>>, prefix |-> Null,
             sequence |-> p.sequence, prefixMap |-> p.prefixMap]
       ELSE LET r == compileLangs(forIn(json), p.prefix, 1, [ids |-> <<>>, langs |-> <<>>])
            IN [threw |-> FALSE, error |-> "", at |-> "",
                exports |-> r.ids, messages |-> r.langs, prefix |-> p.prefix,
                sequence |-> p.sequence, prefixMap |-> p.prefixMap]

\* compile(source, config) with the shortening state it reads and leaves.
\* The module text it returns is JSON.stringify of ids (one export per
\* top-level key) and of langs ($messages): kept here as the two values.
compile(json, path, cfg, seq, map) ==
    LET parsed == parseSource(json) IN
    IF parsed.error # ""
    THEN [threw |-> TRUE, error |-> parsed.error, at |-> parsed.at,
          exports |-> <<>>, messages |-> <<>>, prefix |-> Null,
          sequence |-> seq, prefixMap |-> map]
    ELSE LET p == getPrefix(path, cfg, seq, map)
             r == compileLangs(forIn(json), p.prefix, 1, [ids |-> <<>>, langs |-> <<>>])
         IN [threw |-> FALSE, error |-> "", at |-> "",
             exports |-> r.ids, messages |-> r.langs, prefix |-> p.prefix,
             sequence |-> p.sequence, prefixMap |-> p.prefixMap]

(***************************************************************************)
(* The single-language loader (index.js)                                   *)
(***************************************************************************)
\* key[0] == "@": strings are atoms here, so the keys of the model that start
\* with "@" are listed.
AtKeys == {"@locale", "@note", "@messages"}

MissingLocale == "Locale JSON must include an @locale property"

\* parseSourceLocale without the test of json["@locale"]
parseSourceNoLocale(json) ==
    IF typeof(json) # "object"
    THEN [error |-> "Error", at |-> "Locale JSON must be an object"]
    ELSE IF check(json, "data") # ""
         THEN [error |-> "Error", at |-> check(json, "data")]
         ELSE [error |-> "", at |-> ""]

\* index.js parseSource on JSON.parse(source): what it throws, or "".  Reading
\* json["@locale"] of null is the engine's TypeError.
parseSourceLocale(json) ==
    IF typeof(json) # "object"
    THEN [error |-> "Error", at |-> "Locale JSON must be an object"]
    ELSE IF check(json, "data") # ""
         THEN [error |-> "Error", at |-> check(json, "data")]
         ELSE IF json.t = "null"
              THEN [error |-> "TypeError", at |-> "Cannot read property '@locale' of null"]
              ELSE IF Prop(json.v, "@locale").t # "string"
                   THEN [error |-> "Error", at |-> MissingLocale]
                   ELSE [error |-> "", at |-> ""]

\* convert's inner go(result, obj, path): obj is changed in place, so what is
\* returned is [obj, result], the object and the flat table after the walk.
RECURSIVE go(_, _, _), goFrom(_, _, _, _), goFromEveryKey(_, _, _, _)
\* goFrom without the test of key[0]
goFromEveryKey(props, path, i, acc) ==
    IF i > Len(props) THEN acc
    ELSE LET key == props[i][1]
             value == props[i][2]
         IN IF typeof(value) = "object"
            THEN LET nested == go(acc.result, value, path \o key \o ".")
                 IN goFromEveryKey(props, path, i + 1,
                        [obj |-> Put(acc.obj, key, nested.obj),
                         result |-> nested.result])
            ELSE goFromEveryKey(props, path, i + 1,
                        [obj |-> Put(acc.obj, key, Str(path \o key)),
                         result |-> Put(acc.result, path \o key, value)])

goFrom(props, path, i, acc) ==
    IF i > Len(props) THEN acc
    ELSE LET key == props[i][1]
             value == props[i][2]
         IN IF key \in AtKeys
            THEN goFrom(props, path, i + 1, acc)
            ELSE IF typeof(value) = "object"
                 THEN LET nested == go(acc.result, value, path \o key \o ".")
                      IN goFrom(props, path, i + 1,
                             [obj |-> Put(acc.obj, key, nested.obj),
                              result |-> nested.result])
                 ELSE goFrom(props, path, i + 1,
                             [obj |-> Put(acc.obj, key, Str(path \o key)),
                              result |-> Put(acc.result, path \o key, value)])

go(result, obj, path) ==
    LET r == goFrom(forIn(obj), path, 1, [obj |-> forIn(obj), result |-> result])
    IN [obj |-> [obj EXCEPT !.v = r.obj], result |-> r.result]

\* index.js convert(obj, prefix): the properties of the returned object
convertLocale(obj, prefix) ==
    LET r == go(<<>>, obj, prefix.s \o ":")
    IN Put(r.obj.v, "@messages", Obj(r.result))

\* getMessages(source, config) with the shortening state it reads and leaves;
\* what it returns is kept in messages.
getMessages(json, path, cfg, seq, map) ==
    LET parsed == parseSourceLocale(json) IN
    IF parsed.error # ""
    THEN [threw |-> TRUE, error |-> parsed.error, at |-> parsed.at,
          exports |-> <<>>, messages |-> <<>>, prefix |-> Null,
          sequence |-> seq, prefixMap |-> map]
    ELSE LET p == getPrefix(path, cfg, seq, map)
         IN [threw |-> FALSE, error |-> "", at |-> "", exports |-> <<>>,
             messages |-> IF Prop(json.v, "@locale") # Str(cfg.lang) THEN <<>>
                          ELSE Get(convertLocale(json, p.prefix), "@messages").v,
             prefix |-> p.prefix,
             sequence |-> p.sequence, prefixMap |-> p.prefixMap]

\* getIDs(source) likewise; what it returns is kept in exports.
getIDs(json, path, cfg, seq, map) ==
    LET parsed == parseSourceLocale(json) IN
    IF parsed.error # ""
    THEN [threw |-> TRUE, error |-> parsed.error, at |-> parsed.at,
          exports |-> <<>>, messages |-> <<>>, prefix |-> Null,
          sequence |-> seq, prefixMap |-> map]
    ELSE LET p == getPrefix(path, cfg, seq, map)
         IN [threw |-> FALSE, error |-> "", at |-> "",
             exports |-> Delete(convertLocale(json, p.prefix), "@messages"),
             messages |-> <<>>, prefix |-> p.prefix,
             sequence |-> p.sequence, prefixMap |-> p.prefixMap]

(***************************************************************************)
(* The combine helper (part_002 lines 1-26, and the flat one of part_001)  *)
(***************************************************************************)
\* merge(dst, src).  dst is an object or, when an earlier source left a string
\* at this path, that string: a property read on it gives undefined and a
\* property write is dropped (the file is not in strict mode).
RECURSIVE merge(_, _), mergeFrom(_, _, _), mergeFromFresh(_, _, _)
\* mergeFrom with dst[key] = merge({}, src[key])
mergeFromFresh(dst, props, i) ==
    IF i > Len(props) THEN dst
    ELSE LET key == props[i][1]
             new == merge(Obj(<<>>), props[i][2])
         IN mergeFromFresh(IF dst.t = "object" THEN Obj(Put(dst.v, key, new)) ELSE dst,
                           props, i + 1)

mergeFrom(dst, props, i) ==
    IF i > Len(props) THEN dst
    ELSE LET key == props[i][1]
             old == IF dst.t = "object" /\ Has(dst.v, key) /\ truthy(Get(dst.v, key))
                    THEN Get(dst.v, key)
                    ELSE Obj(<<>>)
             new == merge(old, props[i][2])
         IN mergeFrom(IF dst.t = "object" THEN Obj(Put(dst.v, key, new)) ELSE dst,
                      props, i + 1)

\* merge keeping the string already there
mergeKeepFirst(dst, from) ==
    IF typeof(from) # "object"
    THEN IF dst.t = "string" THEN dst ELSE from
    ELSE mergeFrom(dst, forIn(from), 1)

merge(dst, from) ==
    IF typeof(from) # "object" THEN from ELSE mergeFrom(dst, forIn(from), 1)

\* combine: req.keys().map(...).reduce(merge, {})
RECURSIVE reduceMerge(_, _, _)
reduceMerge(acc, ts, i) ==
    IF i > Len(ts) THEN acc ELSE reduceMerge(merge(acc, ts[i]), ts, i + 1)

combine(ts) == reduceMerge(Obj(<<>>), ts, 1)

\* the flat combine: reduce with Object.assign(result, messages)
RECURSIVE reduceAssign(_, _, _)
reduceAssign(acc, ts, i) ==
    IF i > Len(ts) THEN acc
    ELSE reduceAssign(Obj(assign(acc.v, forIn(ts[i]))), ts, i + 1)

combineFlat(ts) == reduceAssign(Obj(<<>>), ts, 1)

(***************************************************************************)
(* Bounds and inputs                                                       *)
(***************************************************************************)
\* A locale module is built by writing at most MaxEntries messages into it.
MaxEntries == 3
\* combine is handed at most MaxTables message tables.
MaxTables == 3

Langs == {"en", "fr", "de"}
\* where a message can sit below its language: group, key, nested key
LeafPaths == {<<"h">>, <<"g", "a">>, <<"g", "a.b">>, <<"g", "a", "b">>}
\* values that are neither a string nor a plain object
BadValues == {Num("42"), Bool("true"), Null, Arr(<<Str("x")>>), Arr(<<Num("42")>>)}

\* obj[k1][k2]...[kn] = value, creating the objects on the way
RECURSIVE insert(_, _, _)
insert(props, path, value) ==
    IF Len(path) = 1 THEN Put(props, path[1], value)
    ELSE LET key == path[1]
             child == IF Has(props, key) /\ Get(props, key).t = "object"
                      THEN Get(props, key).v ELSE <<>>
         IN Put(props, key, Obj(insert(child, Tail(path), value)))

\* the i-th message written is the text "s<i>"
RECURSIVE buildFrom(_, _, _)
buildFrom(props, es, i) ==
    IF i > Len(es) THEN props
    ELSE buildFrom(insert(props, <<es[i].lang>> \o es[i].path, Str("s" \o ToString(i))),
                   es, i + 1)

BuildTree(es) == buildFrom(<<>>, es, 1)

Entries == [lang : Langs, path : LeafPaths]
EntrySeqs(n) == UNION {[1..k -> Entries] : k \in 0..n}

ValidSources == {Obj(BuildTree(es)) : es \in EntrySeqs(MaxEntries)}
\* one illegal value, alone or beside one message
BadSources ==
    {Obj(insert(BuildTree(es), <<l>> \o p, b)) :
        es \in EntrySeqs(1), l \in Langs, p \in LeafPaths \cup {<<>>}, b \in BadValues}
\* a module that does not export a plain object at all
RootSources == {Num("42"), Str("x"), Null, Arr(<<>>)}
Sources == ValidSources \cup BadSources \cup RootSources

\* the modules of the multi-module runs
SeqSources ==
    {Obj(BuildTree(es)) : es \in [1..1 -> [lang : {"en", "fr"}, path : {<<"h">>}]]}
    \cup {Obj(<<>>), Obj(<<<<"en", Obj(<<<<"h", Num("42")>>>>)>>>>)}

\* relative paths as Path.relative returns them, in pieces
ResourcePaths == {<<"m">>, <<"1">>, <<"c", "\\", "m">>}
\* the multi-language loader reads no lang
Configs == [shorten : BOOLEAN, lang : {""}]

\* Single-language modules: the marker, then at most MaxEntries messages.
\* where a message can sit in the module
LocaleLeafPaths == {<<"h">>, <<"g", "a">>, <<"g", "a.b">>, <<"g", "a", "b">>,
                    <<"@note">>, <<"g", "@note">>, <<"@note", "x">>}
\* what the module has under "@locale" (Undefined: no such key)
Markers == {Undefined, Str("en"), Str("fr"), Num("42"), Null, Obj(<<>>)}

RECURSIVE buildAt(_, _, _)
buildAt(props, paths, i) ==
    IF i > Len(paths) THEN props
    ELSE buildAt(insert(props, paths[i], Str("s" \o ToString(i))), paths, i + 1)

BuildLocale(marker, paths) ==
    buildAt(IF marker = Undefined THEN <<>> ELSE <<<<"@locale", marker>>>>, paths, 1)

LocalePathSeqs(n) == UNION {[1..k -> LocaleLeafPaths] : k \in 0..n}

ValidLocaleSources ==
    {Obj(BuildLocale(m, ps)) : m \in Markers, ps \in LocalePathSeqs(MaxEntries)}
\* one illegal value beside at most one message
BadLocaleSources ==
    {Obj(insert(BuildLocale(m, ps), p, b)) :
        m \in {Undefined, Str("en"), Num("42")}, ps \in LocalePathSeqs(1),
        p \in LocaleLeafPaths, b \in BadValues}
LocaleSources == ValidLocaleSources \cup BadLocaleSources \cup RootSources

\* config.lang: not set, or the language asked for
LocaleConfigs == [shorten : BOOLEAN, lang : {"", "en"}]

\* the modules and the paths of the runs with either version of the loader
SeqLocaleSources ==
    {Obj(BuildLocale(Str("en"), <<<<"h">>>>)), Obj(BuildLocale(Undefined, <<<<"h">>>>)),
     Obj(<<<<"@locale", Str("en")>>, <<"h", Num("42")>>>>)}
ProcessPaths == {<<"m">>, <<"c", "\\", "m">>, <<"constructor">>}

\* message tables for combine: {} or {a: v}, v a string or {x: .., y: ..}
TableStrings == {"1", "2", ""}
Inner ==
    {<<>>}
    \cup {<<<<k, Str(s)>>>> : k \in {"x", "y"}, s \in TableStrings}
    \cup {<<<<"x", Str(s)>>, <<"y", Str(r)>>>> : s, r \in TableStrings}
Tables ==
    {Obj(<<>>)}
    \cup {Obj(<<<<"a", Str(s)>>>>) : s \in TableStrings}
    \cup {Obj(<<<<"a", Obj(o)>>>>) : o \in Inner}
TableSeqs == UNION {[1..k -> Tables] : k \in 0..MaxTables}

(***************************************************************************)
(* State machine                                                           *)
(***************************************************************************)
NoOutput == [threw |-> FALSE, error |-> "", at |-> "", exports |-> <<>>,
             messages |-> <<>>, prefix |-> Null]
NoCall == [src |-> Null, resourcePath |-> <<>>,
           config |-> [shorten |-> FALSE, lang |-> ""],
           output |-> NoOutput, called |-> FALSE]
EmptyMap == [p \in {} |-> Undefined]

InitCombineIdle ==
    /\ tables = <<>>
    /\ mpc = "idle"
    /\ merged = Null
    /\ mergedFlat = Null

InitLoaderIdle ==
    /\ src = Null
    /\ resourcePath = <<>>
    /\ config = [shorten |-> FALSE, lang |-> ""]
    /\ pc = "idle"
    /\ output = NoOutput
    /\ sequence = 1
    /\ prefixMap = EmptyMap
    /\ baseline = NoCall
    /\ issued = EmptyMap

\* webpack hands the next module to the loader
Require(s, p, c) ==
    /\ pc \in {"idle", "done"}
    /\ src' = s
    /\ resourcePath' = p
    /\ config' = c
    /\ pc' = "pending"
    /\ UNCHANGED <<version, output, sequence, prefixMap, baseline, issued,
                   combineVars>>

\* what a finished invocation r of the loader leaves: the result, the
\* shortening state, and the two history variables
Finish(r) ==
    LET out == [threw |-> r.threw, error |-> r.error, at |-> r.at,
                exports |-> r.exports, messages |-> r.messages,
                prefix |-> r.prefix]
        path == normalise(resourcePath)
    IN /\ output' = out
       /\ sequence' = r.sequence
       /\ prefixMap' = r.prefixMap
       /\ baseline' = IF baseline.called THEN baseline
                      ELSE [src |-> src, resourcePath |-> resourcePath,
                            config |-> config, output |-> out, called |-> TRUE]
       /\ issued' = IF config.shorten /\ ~r.threw /\ path \notin DOMAIN issued
                    THEN Store(issued, path, r.prefix)
                    ELSE issued
       /\ pc' = "done"
       /\ UNCHANGED <<src, resourcePath, config, version, combineVars>>

\* module.exports(source): compile.call(this, source, config)
Loader ==
    /\ version = "multi"
    /\ pc = "pending"
    /\ Finish(compile(src, resourcePath, config, sequence, prefixMap))

\* index.js module.exports(source), after a pitch that returned nothing:
\* toJS(getIDs.call(this, source))
LoaderIDs ==
    /\ version = "single"
    /\ pc = "pending"
    /\ ~truthy(Str(config.lang))
    /\ Finish(getIDs(src, resourcePath, config, sequence, prefixMap))

\* index.js module.exports.pitch with config.lang set: the file is read and
\* toJS(getMessages.call(this, source, config)) or the error goes to callback
Pitch ==
    /\ version = "single"
    /\ pc = "pending"
    /\ truthy(Str(config.lang))
    /\ Finish(getMessages(src, resourcePath, config, sequence, prefixMap))

\* combine(req), the recursive merge
Combine ==
    /\ mpc = "pending"
    /\ merged' = combine(tables)
    /\ mpc' = "done"
    /\ UNCHANGED <<tables, mergedFlat, loaderVars>>

\* combine(req), the flat Object.assign helper
CombineFlat ==
    /\ mpc = "pending"
    /\ mergedFlat' = combineFlat(tables)
    /\ mpc' = "doneFlat"
    /\ UNCHANGED <<tables, merged, loaderVars>>

\* a process compiling module after module with the multi-language loader
Init == InitLoaderIdle /\ version = "multi" /\ InitCombineIdle
Next ==
    \/ \E s \in SeqSources, p \in ResourcePaths, c \in Configs : Require(s, p, c)
    \/ Loader
Spec == Init /\ [][Next]_vars

\* one compile of one module, over every source of the bounded universe
InitCompile ==
    /\ src \in Sources
    /\ resourcePath \in ResourcePaths
    /\ config \in Configs
    /\ version = "multi"
    /\ pc = "pending"
    /\ output = NoOutput
    /\ sequence = 1
    /\ prefixMap = EmptyMap
    /\ baseline = NoCall
    /\ issued = EmptyMap
    /\ InitCombineIdle
NextCompile == Loader
SpecCompile == InitCompile /\ [][NextCompile]_vars

\* one call of the single-language loader, over every source of its universe
InitLocale ==
    /\ src \in LocaleSources
    /\ resourcePath \in ResourcePaths
    /\ config \in LocaleConfigs
    /\ version = "single"
    /\ pc = "pending"
    /\ output = NoOutput
    /\ sequence = 1
    /\ prefixMap = EmptyMap
    /\ baseline = NoCall
    /\ issued = EmptyMap
    /\ InitCombineIdle
NextLocale == LoaderIDs \/ Pitch
SpecLocale == InitLocale /\ [][NextLocale]_vars

\* a process compiling module after module, with either version of the loader
InitProcess ==
    /\ InitLoaderIdle
    /\ version \in {"multi", "single"}
    /\ InitCombineIdle
NextProcess ==
    \/ /\ version = "multi"
       /\ \E s \in SeqSources, p \in ProcessPaths, c \in Configs : Require(s, p, c)
    \/ /\ version = "single"
       /\ \E s \in SeqLocaleSources, p \in ProcessPaths, c \in LocaleConfigs :
             Require(s, p, c)
    \/ Loader
    \/ LoaderIDs
    \/ Pitch
SpecProcess == InitProcess /\ [][NextProcess]_vars

\* one combine call over every sequence of tables of the bounded universe
InitCombine ==
    /\ InitLoaderIdle
    /\ version = "multi"
    /\ tables \in TableSeqs
    /\ mpc = "pending"
    /\ merged = Null
    /\ mergedFlat = Null
NextCombine == Combine \/ CombineFlat
SpecCombine == InitCombine /\ [][NextCombine]_vars

(***************************************************************************)
(* Vocabulary of the properties                                            *)
(***************************************************************************)
\* k1.k2. ... .kn
RECURSIVE dotted(_)
dotted(path) ==
    IF Len(path) = 1 THEN path[1] ELSE path[1] \o "." \o dotted(Tail(path))

\* The leaf strings of a tree: <<key sequence, string>> for every string
\* reached through nested mappings.
RECURSIVE LeafSet(_)
LeafSet(x) ==
    LET props == forIn(x) IN
    UNION {
        LET key == props[i][1]
            value == props[i][2]
        IN IF value.t = "string" THEN {<<<<key>>, value.s>>}
           ELSE {<<<<key>> \o l[1], l[2]>> : l \in LeafSet(value)}
        : i \in 1..Len(props)}

LeafPathsOf(x) == {l[1] : l \in LeafSet(x)}

\* the key sequences that reach a mapping
RECURSIVE NodePathsOf(_)
NodePathsOf(x) ==
    LET props == forIn(x) IN
    UNION {
        LET key == props[i][1]
            value == props[i][2]
        IN IF value.t = "string" THEN {}
           ELSE {<<key>>} \cup {<<key>> \o n : n \in NodePathsOf(value)}
        : i \in 1..Len(props)}

\* the key sequences that reach a value that is no string and no mapping
\* (a number, a boolean, null, an array), also inside such a value
RECURSIVE BadPathsOf(_)
BadPathsOf(x) ==
    LET props == forIn(x) IN
    UNION {
        LET key == props[i][1]
            value == props[i][2]
            below == {<<key>> \o b : b \in BadPathsOf(value)}
        IN IF value.t = "string" THEN {}
           ELSE IF value.t = "object" THEN below
           ELSE {<<key>>} \cup below
        : i \in 1..Len(props)}

\* a LocaleTree in the multi-language shape: mappings down to strings, one
\* mapping per language
IsLocaleTree(x) ==
    /\ x.t = "object"
    /\ BadPathsOf(x) = {}
    /\ \A i \in 1..Len(x.v) : x.v[i][2].t = "object"

\* a property list as the set of its <<key, string>> entries
Entries2Set(props) == {<<props[i][1], props[i][2].s>> : i \in 1..Len(props)}
KeysOf(props) == {props[i][1] : i \in 1..Len(props)}

LangsOf(x) == KeysOf(forIn(x))
\* the key compile generates for a key sequence
IdOf(prefix, path) == prefix.s \o ":" \o dotted(path)

Compiled == pc = "done" /\ ~output.threw

(***************************************************************************)
(* Properties of compile                                                   *)
(***************************************************************************)
\* C1: for every multi-language tree and every language L, L's value table
\* holds prefix:k1.....kn -> s for every leaf string s of L's subtree reached
\* by k1..kn, and nothing else: one entry per leaf.
C1_ValueTableIsLeaves ==
    (pc = "done" /\ IsLocaleTree(src)) =>
        /\ ~output.threw
        /\ LangsOf(src) = KeysOf(output.messages)
        /\ \A L \in LangsOf(src) :
              LET table == Get(output.messages, L).v
                  leaves == LeafSet(Get(src.v, L))
              IN /\ Entries2Set(table) = {<<IdOf(output.prefix, l[1]), l[2]>> : l \in leaves}
                 /\ Len(table) = Cardinality(leaves)

\* C2: the shared identifier tree has a leaf at p exactly when some language
\* has a leaf string at p, and that leaf is prefix:dotted(p).
C2_IdentifierTreeIsUnion ==
    (pc = "done" /\ IsLocaleTree(src)) =>
        /\ ~output.threw
        /\ LeafSet(Obj(output.exports)) =
              {<<p, IdOf(output.prefix, p)>> :
                  p \in UNION {LeafPathsOf(Get(src.v, L)) : L \in LangsOf(src)}}

\* C3: identifiers are unique: two leaf positions of one language never get
\* the same identifier (no value-table entry overwrites another), and a module
\* compiled under a different prefix shares no identifier with this one.
C3_IdentifiersUnique ==
    (pc = "done" /\ IsLocaleTree(src)) =>
        /\ \A L \in LangsOf(src) :
              LET ids == LeafSet(Obj(convert(Get(src.v, L), output.prefix.s \o ":").ids))
              IN /\ \A a, b \in ids : a[2] = b[2] => a[1] = b[1]
                 /\ Len(Get(output.messages, L).v) = Cardinality(ids)
        /\ \A p \in ResourcePaths, c \in Configs :
              LET other == compile(src, p, c, sequence, prefixMap)
              IN other.prefix # output.prefix =>
                    {l[2] : l \in LeafSet(Obj(other.exports))}
                    \cap {l[2] : l \in LeafSet(Obj(output.exports))} = {}

C5_SharedIdentifier ==
    (pc = "done" /\ IsLocaleTree(src)) =>
        \A L, M \in LangsOf(src) :
            \A p \in LeafPathsOf(Get(src.v, L)) \cap LeafPathsOf(Get(src.v, M)) :
                L # M =>
                    LET idsL == LeafSet(Obj(convert(Get(src.v, L), output.prefix.s \o ":").ids))
                        idsM == LeafSet(Obj(convert(Get(src.v, M), output.prefix.s \o ":").ids))
                    IN \E k \in idsL \cap idsM :
                          /\ k[1] = p
                          /\ k[2] = IdOf(output.prefix, p)
                          /\ Has(Get(output.messages, L).v, k[2])
                          /\ Has(Get(output.messages, M).v, k[2])
                          /\ k \in LeafSet(Obj(output.exports))

\* C6: a compile without shortening leaves the counter and the prefix map as
\* they are, and returns what the first compile of the process returned for
\* the same module without shortening, whatever was compiled in between.
C6_Deterministic ==
    [][(pc = "pending" /\ pc' = "done" /\ ~config.shorten) =>
          /\ sequence' = sequence
          /\ prefixMap' = prefixMap
          /\ (output'.threw \/ output'.prefix = Str(normalise(resourcePath)))
          /\ (/\ baseline.called
              /\ ~baseline.config.shorten
              /\ baseline.src = src
              /\ baseline.resourcePath = resourcePath) => output' = baseline.output]_vars

\* a module is compiled without shortening a second time, after a compile
\* that shortened the same path
C6_Witness ==
    /\ pc = "done"
    /\ ~config.shorten
    /\ ~output.threw
    /\ output.messages # <<>>
    /\ baseline.called
    /\ ~baseline.config.shorten
    /\ baseline.src = src
    /\ baseline.resourcePath = resourcePath
    /\ normalise(resourcePath) \in DOMAIN prefixMap
    /\ sequence > 2

\* C10: a value that is neither a string nor a mapping, at any depth, makes
\* compile throw the shape error, naming a path of such a value, and nothing
\* is returned.
C10_ShapeValidation ==
    (pc = "done" /\ src.t = "object" /\ BadPathsOf(src) # {}) =>
        /\ output.threw
        /\ output.error = "TypeError"
        /\ output.at \in {"root." \o dotted(p) : p \in BadPathsOf(src)}
        /\ output.exports = <<>>
        /\ output.messages = <<>>

(***************************************************************************)
(* Properties of the single-language loader                                *)
(***************************************************************************)
LocaleDone == version = "single" /\ pc = "done"

\* the key sequences that reach a number or a boolean, the values check
\* throws for
RECURSIVE RejectedPathsOf(_)
RejectedPathsOf(x) ==
    LET props == forIn(x) IN
    UNION {
        LET key == props[i][1]
            value == props[i][2]
        IN IF typeof(value) = "string" THEN {}
           ELSE IF typeof(value) = "object"
                THEN {<<key>> \o b : b \in RejectedPathsOf(value)}
                ELSE {<<key>>}
        : i \in 1..Len(props)}

NothingReturned == output.exports = <<>> /\ output.messages = <<>>

\* C11 as stated: a tree whose @locale is absent or holds no string fails with
\* the missing-locale error in getIDs and in getMessages and returns nothing;
\* a tree with a string marker and valid other values never raises it.
C11_MissingLocaleError ==
    (LocaleDone /\ src.t = "object") =>
        /\ Prop(src.v, "@locale").t # "string" =>
              /\ output.threw
              /\ output.error = "Error"
              /\ output.at = MissingLocale
              /\ NothingReturned
        /\ (Prop(src.v, "@locale").t = "string" /\ BadPathsOf(src) = {}) =>
              ~(output.threw /\ output.at = MissingLocale)

\* C11 amended: a tree whose @locale is absent or holds no string fails in
\* getIDs and in getMessages and returns nothing; the error is the
\* missing-locale one when no value of the tree, the marker included, is a
\* number or a boolean, and else the shape error naming such a value, which is
\* tested first.  A tree with a string marker never raises the missing-locale
\* error.
C11_MarkerValidation ==
    (LocaleDone /\ src.t = "object") =>
        /\ Prop(src.v, "@locale").t # "string" =>
              /\ output.threw
              /\ output.error = "Error"
              /\ NothingReturned
              /\ IF RejectedPathsOf(src) = {}
                 THEN output.at = MissingLocale
                 ELSE output.at \in {"data." \o dotted(p) : p \in RejectedPathsOf(src)}
        /\ Prop(src.v, "@locale").t = "string" =>
              ~(output.threw /\ output.at = MissingLocale)

\* getMessages has rejected a module of messages without the marker
C11_Witness ==
    /\ LocaleDone
    /\ src.t = "object"
    /\ ~Has(src.v, "@locale")
    /\ LeafPathsOf(src) # {}
    /\ BadPathsOf(src) = {}
    /\ truthy(Str(config.lang))
    /\ output.threw
    /\ output.at = MissingLocale

\* the leaf strings the walk reaches: no key on the way starts with "@"
Walked(x) == {l \in LeafSet(x) : \A i \in 1..Len(l[1]) : l[1][i] \notin AtKeys}

\* a LocaleTree in the single-language shape: mappings down to strings, with
\* the declared language under "@locale"
IsSingleLocaleTree(x) ==
    /\ x.t = "object"
    /\ BadPathsOf(x) = {}
    /\ Prop(x.v, "@locale").t = "string"

TokensBelow(n) == {Num(ToString(m)) : m \in 1..(n - 1)}

\* a loader step that returns with shortening enabled
ShortenedStep == pc = "pending" /\ pc' = "done" /\ config.shorten /\ ~output'.threw

\* C12: with shortening enabled, a path compiled for the first time gets an
\* integer token greater than every token given out before (so no two paths
\* share a token), and a path compiled again gets the token of its first
\* compile.
C12_ShortenedTokens ==
    [][ShortenedStep =>
          LET path == normalise(resourcePath)
              token == output'.prefix
          IN IF path \in DOMAIN issued
             THEN token = issued[path]
             ELSE \E n \in 1..sequence :
                     /\ token = Num(ToString(n))
                     /\ \A q \in DOMAIN issued : issued[q] \in TokensBelow(n)]_vars

\* C12 for the paths that are no member name of Object.prototype
C12_OwnNames ==
    [][(ShortenedStep /\ normalise(resourcePath) \notin ObjectPrototype) =>
          LET path == normalise(resourcePath)
              token == output'.prefix
              others == DOMAIN issued \ ObjectPrototype
          IN IF path \in DOMAIN issued
             THEN token = issued[path]
             ELSE \E n \in 1..sequence :
                     /\ token = Num(ToString(n))
                     /\ \A q \in others : issued[q] \in TokensBelow(n)]_vars

\* C15: the prefix map holds the tokens 1 .. sequence - 1, one per mapped
\* path and none skipped, and an entry of the map is never changed or removed.
C15_ShorteningState ==
    /\ [](/\ {prefixMap[p] : p \in DOMAIN prefixMap} = TokensBelow(sequence)
          /\ Cardinality(DOMAIN prefixMap) = sequence - 1)
    /\ [][\A p \in DOMAIN prefixMap :
              p \in DOMAIN prefixMap' /\ prefixMap'[p] = prefixMap[p]]_vars

\* C15 for the paths that are no member name of Object.prototype
C15_OwnNames ==
    /\ [](/\ {prefixMap[p] : p \in DOMAIN prefixMap \ ObjectPrototype}
                = TokensBelow(sequence)
          /\ Cardinality(DOMAIN prefixMap \ ObjectPrototype) = sequence - 1)
    /\ [][\A p \in DOMAIN prefixMap :
              p \in DOMAIN prefixMap' /\ prefixMap'[p] = prefixMap[p]]_vars

\* what the loader in use returns for a module from a shortening state
Call(s, p, c, seq, map) ==
    IF version = "multi" THEN compile(s, p, c, seq, map)
    ELSE IF truthy(Str(c.lang)) THEN getMessages(s, p, c, seq, map)
    ELSE getIDs(s, p, c, seq, map)

NextModules ==
    IF version = "multi" THEN SeqSources \X ProcessPaths \X Configs
    ELSE SeqLocaleSources \X ProcessPaths \X LocaleConfigs

\* C13: a loader call that throws has assigned no prefix and generated no
\* identifier: the counter and the prefix map are as before the call, and
\* every module gets afterwards what it would have got before the call.
C13_FailureLeavesState ==
    [][(pc = "pending" /\ pc' = "done" /\ output'.threw) =>
          /\ sequence' = sequence
          /\ prefixMap' = prefixMap
          /\ output'.prefix = Null
          /\ output'.exports = <<>>
          /\ output'.messages = <<>>
          /\ \A m \in NextModules :
                Call(m[1], m[2], m[3], sequence', prefixMap')
                    = Call(m[1], m[2], m[3], sequence, prefixMap)]_vars

\* a shortened compile of a path not yet in the prefix map has thrown, after
\* another path was shortened
C13_Witness ==
    /\ pc = "done"
    /\ output.threw
    /\ config.shorten
    /\ sequence > 1
    /\ normalise(resourcePath) \notin DOMAIN prefixMap

(***************************************************************************)
(* Properties of combine                                                   *)
(***************************************************************************)
AllLeafPaths(ts) == UNION {LeafPathsOf(ts[i]) : i \in 1..Len(ts)}
AllNodePaths(ts) == UNION {NodePathsOf(ts[i]) : i \in 1..Len(ts)}

\* no path holds a string in one table and a mapping in another
ShapeConsistent(ts) == AllLeafPaths(ts) \cap AllNodePaths(ts) = {}

DisjointLeaves(ts) ==
    \A i, j \in 1..Len(ts) : i # j => LeafPathsOf(ts[i]) \cap LeafPathsOf(ts[j]) = {}

Reverse(ts) == [i \in 1..Len(ts) |-> ts[Len(ts) + 1 - i]]

\* the last table that has something at path p, and the string it has there
LastAt(ts, p) ==
    CHOOSE i \in 1..Len(ts) :
        /\ p \in LeafPathsOf(ts[i]) \cup NodePathsOf(ts[i])
        /\ \A j \in 1..Len(ts) :
              p \in LeafPathsOf(ts[j]) \cup NodePathsOf(ts[j]) => j <= i
StringAt(x, p) == (CHOOSE l \in LeafSet(x) : l[1] = p)[2]

\* C7: tables with pairwise disjoint leaf paths under shared parents merge
\* into the union of their entries, in whatever order they come.
C7_AdditiveMerge ==
    (mpc = "done" /\ ShapeConsistent(tables) /\ DisjointLeaves(tables)) =>
        /\ merged.t = "object"
        /\ LeafSet(merged) = UNION {LeafSet(tables[i]) : i \in 1..Len(tables)}
        /\ LeafSet(combine(Reverse(tables))) = LeafSet(merged)

\* two tables that put different keys under the same parent have been merged
C7_Witness ==
    /\ mpc = "done"
    /\ ShapeConsistent(tables)
    /\ DisjointLeaves(tables)
    /\ \E i, j \in 1..Len(tables) :
          /\ <<"a", "x">> \in LeafPathsOf(tables[i])
          /\ <<"a", "y">> \in LeafPathsOf(tables[j])
          /\ <<"a", "y">> \notin LeafPathsOf(tables[i])
          /\ <<"a", "x">> \notin LeafPathsOf(tables[j])
    /\ Cardinality(LeafSet(merged)) = 2

\* C8: at a leaf path that several tables define, the merged dictionary holds
\* the string of the last of them, and every other path is as it would be
\* without the duplicates; the flat combine does the same for flat tables.
C8_LastWriteWins ==
    /\ (mpc = "done" /\ ShapeConsistent(tables)) =>
          LeafSet(merged) =
              {<<p, StringAt(tables[LastAt(tables, p)], p)>> : p \in AllLeafPaths(tables)}
    /\ (mpc = "doneFlat" /\ AllNodePaths(tables) = {}) =>
          LeafSet(mergedFlat) =
              {<<p, StringAt(tables[LastAt(tables, p)], p)>> : p \in AllLeafPaths(tables)}

\* {a:{x:s}}, {a:{y:..}}, {a:{x:r}} with r # s have been merged
C8_Witness ==
    /\ mpc = "done"
    /\ ShapeConsistent(tables)
    /\ Len(tables) = 3
    /\ LeafPathsOf(tables[1]) = {<<"a", "x">>}
    /\ LeafPathsOf(tables[2]) = {<<"a", "y">>}
    /\ LeafPathsOf(tables[3]) = {<<"a", "x">>}
    /\ StringAt(tables[1], <<"a", "x">>) # StringAt(tables[3], <<"a", "x">>)
    /\ <<<<"a", "x">>, StringAt(tables[3], <<"a", "x">>)>> \in LeafSet(merged)
    /\ Cardinality(LeafSet(merged)) = 2

\* C9: where one table has a string and another a mapping at the same path,
\* merge raises no error and the result has there what the later of the
\* tables supplies, whichever of the two comes later.
C9_ConflictLaterWins ==
    mpc = "done" =>
        /\ merged.t = "object"
        /\ \A p \in AllLeafPaths(tables) \cap AllNodePaths(tables) :
              LET last == tables[LastAt(tables, p)]
              IN IF p \in LeafPathsOf(last)
                 THEN <<p, StringAt(last, p)>> \in LeafSet(merged)
                 ELSE /\ p \in NodePathsOf(merged)
                      /\ \A l \in LeafSet(last) : l \in LeafSet(merged)

=============================================================================
